---- MODULE Spec2Model ----
(***************************************************************************)
(* Model of the hot reloading coordinator of packages/hot-reload/src/lib.rs *)
(* (dioxus): the listener thread that accepts client connections, replays  *)
(* the known templates and registers the connection, and the watcher       *)
(* thread that filters file events, calls FileMap::update_rsx and          *)
(* broadcasts template updates or runs the rebuild closure.                *)
(* Every access to state the two threads share (a lock acquisition, a read *)
(* or write of the abort flag) is a step of its own, so that all           *)
(* interleavings of the two threads are explored; the socket writes of one *)
(* loop, which the other thread cannot observe, are one step.              *)
(***************************************************************************)
EXTENDS Integers, Sequences, FiniteSets, TLC

\* ---------------------------------------------------------------- bounds
MaxConns == 2       \* connections the listener accepts in a run
MaxTemplates == 2   \* templates the diff engine produces in a run
MaxBatch == 2       \* paths of one file event
MaxTime == 2        \* clock seconds elapsed in a run (one batch a second)

Conns == 1..MaxConns

\* ------------------------------------------------------------ paths
\* A path below crate_dir: its directory components, file stem and extension.
MkPath(d, s, e) == [dir |-> d, stem |-> s, ext |-> e]

FileA == MkPath(<<"src">>, "a", "rs")
FileB == MkPath(<<"src">>, "b", "rs")
FileToml == MkPath(<<>>, "Cargo", "toml")
FileTarget == MkPath(<<"target", "debug">>, "a", "rs")
FileTxt == MkPath(<<"src">>, "notes", "txt")
FileIgnored == MkPath(<<"dist">>, "app", "js")

Paths == {FileA, FileB, FileToml, FileTarget, FileTxt, FileIgnored}

\* The .rs files FileMap::new finds below crate_dir, in the map's iteration order.
MapOrder == <<FileA, FileB>>
RsFiles == {MapOrder[k] : k \in DOMAIN MapOrder}

\* Config::new(): excluded_paths = ["./target"], joined to crate_dir.
excluded_paths == {<<"target">>}

\* Path::starts_with: component-wise prefix.
starts_with(path, prefix) ==
    /\ Len(prefix) <= Len(path.dir)
    /\ \A k \in 1..Len(prefix) : path.dir[k] = prefix[k]

\* Gitignore::matched_path_or_any_parents(path, false).is_ignore() for a
\* .gitignore that lists the dist directory.
is_ignore(path) == Len(path.dir) >= 1 /\ path.dir[1] = "dist"

HotReloadExts == {"rs", "toml", "css", "html", "js"}

\* Mutation of IsRealPath: the excluded paths are not looked at.
IsRealPathNoExcluded(path) ==
    /\ path.ext \in HotReloadExts
    /\ ~ is_ignore(path)

\* The filter closure of real_paths.
IsRealPath(path) ==
    /\ path.ext \in HotReloadExts
    /\ ~ \E p \in excluded_paths : starts_with(path, p)
    /\ ~ is_ignore(path)

real_paths(paths) == SelectSeq(paths, IsRealPath)

\* ------------------------------------------------------------ messages
NoTemplate == [id |-> 0, ser |-> TRUE]
\* A template: its identity and whether serde_json::to_string succeeds on it.
MkTemplate(n, s) == [id |-> n, ser |-> s]

UpdateTemplate(t) == [type |-> "UpdateTemplate", template |-> t]
Shutdown == [type |-> "Shutdown", template |-> NoTemplate]

\* send_msg: serialise, then write the line; wok is whether the writes succeed.
send_msg(msg, wok) == msg.template.ser /\ wok

\* write_all on the socket of connection c: fails when the peer is gone
\* (gone is the set of such connections), or when it goes now (~ alive).
WriteOk(gone, c, alive) == c \notin gone /\ alive

\* The connections whose peer is gone after send_msg(msg, ..) on c: a message
\* that does not serialise is not written.
GoneAfter(gone, msg, c, alive) ==
    IF msg.template.ser /\ ~ alive THEN gone \cup {c} ELSE gone

\* One entry of a connection's write log: the message send_msg was called
\* with, its result, and whether the watcher (live) or the listener's replay
\* loop made the call.
LogEntry(msg, ok, live) == [msg |-> msg, ok |-> ok, live |-> live]

Range(s) == {s[k] : k \in DOMAIN s}
RemoveAt(s, k) == [j \in 1..(Len(s) - 1) |-> IF j < k THEN s[j] ELSE s[j + 1]]

\* Mutation of Snapshot: the templates are collected in reverse map order.
SnapshotReversed(fm) ==
    LET n == Len(MapOrder)
        slots == [k \in DOMAIN MapOrder |-> fm[MapOrder[n + 1 - k]]]
    IN  SelectSeq(slots, LAMBDA t : t # NoTemplate)

\* file_map.map.values().filter_map(|(_, template_slot)| *template_slot).collect()
Snapshot(fm) ==
    LET slots == [k \in DOMAIN MapOrder |-> fm[MapOrder[k]]]
    IN  SelectSeq(slots, LAMBDA t : t # NoTemplate)

\* ------------------------------------------------------------ state
VARIABLES
    \* shared between the two threads (Arc<Mutex<..>>)
    channels,         \* Vec of registered connections
    chanLock,         \* holder of the channels mutex: "none", "router"
    chanPoisoned,     \* the channels mutex was poisoned by a panic
    fmLock,           \* holder of the file_map mutex: "none", "router"
    aborted,          \* the aborted flag
    file_map,         \* FileMap.map: file -> template slot (NoTemplate = None)
    dead,             \* connections whose peer is gone: every write to them fails
    \* configuration
    rebuild_with,     \* "None" or "Some": Config.rebuild_with
    \* listener thread
    pc_l,             \* position of the listener thread
    connection,       \* the connection being accepted (0: none)
    templates,        \* the replay snapshot still to send
    nAccepted,        \* connections accepted so far
    \* watcher thread
    pc_r,             \* position of the watcher thread
    batch,            \* real_paths still to visit
    path,             \* the path being visited
    msgs,             \* templates of the UpdatedRsx result still to broadcast
    shutdown,         \* value the rebuild closure returns
    origin,           \* call site of rebuild(): "nonrs" or "needs"
    last_update_time, \* debounce timestamp
    \* environment
    now,              \* chrono::Local::now().timestamp()
    nextT,            \* templates produced so far
    \* history, read by the properties only
    log,              \* per connection: the send_msg calls made on it
    mapAt,            \* per connection: file_map when its snapshot was taken
    tAt,              \* per connection: nextT when its snapshot was taken
    replayed,         \* connections whose replay loop has finished
    rbInBatch,        \* rebuild() invocations of the current batch
    bcastInBatch,     \* UpdateTemplate send_msg calls of the current batch
    terminated,       \* a rebuild_callback invocation returned true
    bcStart,          \* channels when the running broadcast started
    bcMsgs,           \* the UpdatedRsx result being broadcast
    bcBase,           \* per connection: Len(log) when the broadcast started
    rbChans,          \* channels when rebuild() was last invoked
    rbBase,           \* per connection: Len(log) at that invocation
    rbEnded,          \* that invocation is over (returned, or cannot return)
    skipped,          \* paths of the current event the filter left out
    gateAt            \* clock second of the last event that passed the gate

sharedVars == <<channels, chanLock, chanPoisoned, fmLock, aborted, file_map, rebuild_with>>
socketVars == <<dead>>
listenerVars == <<pc_l, connection, templates, nAccepted>>
routerVars == <<pc_r, batch, path, msgs, shutdown, origin, last_update_time>>
envVars == <<now, nextT>>
connHist == <<log, mapAt, tAt, replayed>>
countHist == <<rbInBatch, bcastInBatch, terminated>>
bcHist == <<bcStart, bcMsgs, bcBase>>
rbHist == <<rbChans, rbBase, rbEnded>>
gateHist == <<skipped, gateAt>>
vars == <<sharedVars, socketVars, listenerVars, routerVars, envVars, connHist, countHist, bcHist, rbHist, gateHist>>

EmptyMap == [f \in RsFiles |-> NoTemplate]

\* Mutation of AbortedInit: the flag is created set.
AbortedInitTrue == TRUE

\* let aborted = Arc::new(Mutex::new(false));
AbortedInit == FALSE

Init ==
    /\ channels = <<>> /\ chanLock = "none" /\ chanPoisoned = FALSE
    /\ fmLock = "none" /\ aborted = AbortedInit
    /\ file_map = EmptyMap
    /\ dead = {}
    /\ rebuild_with \in {"None", "Some"}
    /\ pc_l = "accept" /\ connection = 0 /\ templates = <<>> /\ nAccepted = 0
    /\ pc_r = "wait" /\ batch = <<>> /\ path = FileA /\ msgs = <<>>
    /\ shutdown = FALSE /\ origin = "needs" /\ last_update_time = 0
    /\ now = 0 /\ nextT = 0
    /\ log = [c \in Conns |-> <<>>]
    /\ mapAt = [c \in Conns |-> EmptyMap]
    /\ tAt = [c \in Conns |-> 0]
    /\ replayed = {}
    /\ rbInBatch = 0 /\ bcastInBatch = 0 /\ terminated = FALSE
    /\ bcStart = <<>> /\ bcMsgs = <<>> /\ bcBase = [c \in Conns |-> 0]
    /\ rbChans = {} /\ rbBase = [c \in Conns |-> 0] /\ rbEnded = FALSE
    /\ skipped = {} /\ gateAt = 0

\* ------------------------------------------------------------ listener thread
\* Mutation of ListenerOrder: the connection is pushed before the snapshot.
ListenerOrderRegisterFirst(p) ==
    CASE p = "accept" -> "register"
      [] p = "register" -> "snapshot"
      [] p = "snapshot" -> "replay"
      [] p = "replay" -> "sleep"

\* Statement order of one accepted connection: snapshot, replay, push.
ListenerOrder(p) ==
    CASE p = "accept" -> "snapshot"
      [] p = "snapshot" -> "replay"
      [] p = "replay" -> "register"
      [] p = "register" -> "sleep"

\* local_socket_stream.accept() on the non-blocking listener.  Without a
\* pending connection the iteration is only the sleep and the abort check.
Accept ==
    /\ pc_l = "accept"
    /\ \/ /\ nAccepted < MaxConns
          /\ nAccepted' = nAccepted + 1
          /\ connection' = nAccepted + 1
          /\ pc_l' = ListenerOrder("accept")
       \/ /\ pc_l' = IF aborted THEN "done" ELSE "accept"
          /\ UNCHANGED <<nAccepted, connection>>
    /\ UNCHANGED <<templates, sharedVars, socketVars, routerVars, envVars, connHist, countHist, bcHist, rbHist>>
    /\ UNCHANGED gateHist

\* The replay snapshot, taken under the file_map lock.
TakeSnapshot ==
    /\ pc_l = "snapshot"
    /\ fmLock = "none"
    /\ templates' = Snapshot(file_map)
    /\ mapAt' = [mapAt EXCEPT ![connection] = file_map]
    /\ tAt' = [tAt EXCEPT ![connection] = nextT]
    /\ pc_l' = ListenerOrder("snapshot")
    /\ UNCHANGED <<connection, nAccepted, log, replayed>>
    /\ UNCHANGED <<sharedVars, socketVars, routerVars, envVars, countHist, bcHist, rbHist>>
    /\ UNCHANGED gateHist

\* for template in templates: the replay loop from the k-th template on; a
\* failed send_msg only continues the loop.  alive[j] is whether the peer is
\* still there at the j-th write.  Yields the write log and the gone peers.
RECURSIVE ReplayLoop(_, _, _, _, _, _)
ReplayLoop(c, ts, k, lg, gone, alive) ==
    IF k > Len(ts)
    THEN [log |-> lg, dead |-> gone]
    ELSE LET msg == UpdateTemplate(ts[k])
             ok == send_msg(msg, WriteOk(gone, c, alive[k]))
         IN  ReplayLoop(c, ts, k + 1, Append(lg, LogEntry(msg, ok, FALSE)),
                        GoneAfter(gone, msg, c, alive[k]), alive)

\* The replay of the snapshot to the accepted connection.
Replay ==
    /\ pc_l = "replay"
    /\ \E alive \in [DOMAIN templates -> BOOLEAN] :
         LET after == ReplayLoop(connection, templates, 1, log[connection], dead, alive)
         IN  /\ log' = [log EXCEPT ![connection] = after.log]
             /\ dead' = after.dead
    /\ templates' = <<>>
    /\ replayed' = replayed \cup {connection}
    /\ pc_l' = ListenerOrder("replay")
    /\ UNCHANGED <<connection, nAccepted, mapAt, tAt>>
    /\ UNCHANGED <<sharedVars, routerVars, envVars, countHist, bcHist, rbHist>>
    /\ UNCHANGED gateHist

\* channels.lock().unwrap().push(connection); unwrap panics on a poisoned lock.
Register ==
    /\ pc_l = "register"
    /\ IF chanPoisoned
       THEN /\ pc_l' = "panicked"
            /\ UNCHANGED channels
       ELSE /\ chanLock = "none"
            /\ channels' = Append(channels, connection)
            /\ pc_l' = ListenerOrder("register")
    /\ UNCHANGED <<dead, chanLock, chanPoisoned, fmLock, aborted, file_map, rebuild_with>>
    /\ UNCHANGED <<connection, templates, nAccepted>>
    /\ UNCHANGED <<routerVars, envVars, connHist, countHist, bcHist, rbHist>>
    /\ UNCHANGED gateHist

\* sleep(10 ms), then the abort check that ends the loop.
Sleep ==
    /\ pc_l = "sleep"
    /\ pc_l' = IF aborted THEN "done" ELSE "accept"
    /\ UNCHANGED <<connection, templates, nAccepted>>
    /\ UNCHANGED <<sharedVars, socketVars, routerVars, envVars, connHist, countHist, bcHist, rbHist>>
    /\ UNCHANGED gateHist

Listener == Accept \/ TakeSnapshot \/ Replay \/ Register \/ Sleep

\* FileMap::update_rsx(path, crate_dir): NeedsRebuild, or UpdatedRsx with the
\* changed templates (each a template never seen before, n templates having
\* been produced so far).  A file that is no Rust source yields no template.
UpdateResults(p, n) ==
    IF p.ext # "rs"
    THEN {[kind |-> "UpdatedRsx", msgs |-> <<>>]}
    ELSE {[kind |-> "NeedsRebuild", msgs |-> <<>>]} \cup
         UNION {{[kind |-> "UpdatedRsx",
                  msgs |-> [j \in 1..k |-> MkTemplate(n + j, sers[j])]] :
                    sers \in [1..k -> BOOLEAN]} : k \in 0..(MaxTemplates - n)}

\* update_rsx leaves the last changed template in the file's template slot.
StoreTemplates(fm, p, ts) ==
    IF ts = <<>> \/ p \notin DOMAIN fm THEN fm ELSE [fm EXCEPT ![p] = ts[Len(ts)]]

\* ------------------------------------------------------------ watcher thread
\* The events the notify channel delivers: Err, or Ok with the changed paths.
Events ==
    {[ok |-> FALSE, paths |-> <<>>]} \cup
    {[ok |-> TRUE, paths |-> ps] : ps \in UNION {[1..k -> Paths] : k \in 1..MaxBatch}}

\* Mutation of GateOpen: an event of the second of the timestamp passes.
GateOpenSameSecond(t, last) == t >= last

\* if chrono::Local::now().timestamp() > last_update_time
GateOpen(t, last) == t > last

\* for evt in rx: the debounce gate, then the filter that yields real_paths.
\* An event that finds the gate closed is dropped.
Event ==
    /\ pc_r = "wait"
    /\ \E evt \in Events :
         IF GateOpen(now, last_update_time)
         THEN IF evt.ok
              THEN /\ batch' = real_paths(evt.paths)
                   /\ pc_r' = "lock"
                   /\ skipped' = Range(evt.paths) \ Range(real_paths(evt.paths))
                   /\ gateAt' = now
                   /\ UNCHANGED last_update_time
              ELSE /\ last_update_time' = now
                   /\ UNCHANGED <<batch, pc_r, gateHist>>
         ELSE UNCHANGED <<batch, pc_r, last_update_time, gateHist>>
    /\ UNCHANGED <<path, msgs, shutdown, origin>>
    /\ UNCHANGED <<sharedVars, socketVars, listenerVars, envVars, connHist, countHist, bcHist, rbHist>>

\* let mut channels = channels.lock().unwrap(), held for the whole batch.
LockChannels ==
    /\ pc_r = "lock"
    /\ chanLock = "none"
    /\ chanLock' = "router"
    /\ pc_r' = "path"
    /\ UNCHANGED <<dead, channels, chanPoisoned, fmLock, aborted, file_map, rebuild_with>>
    /\ UNCHANGED <<batch, path, msgs, shutdown, origin, last_update_time>>
    /\ UNCHANGED <<listenerVars, envVars, connHist, countHist, bcHist, rbHist>>
    /\ UNCHANGED gateHist

\* for path in real_paths: a path that is no .rs file calls rebuild().
NextPath ==
    /\ pc_r = "path"
    /\ IF batch = <<>>
       THEN /\ pc_r' = "end"
            /\ UNCHANGED <<batch, path, origin>>
       ELSE /\ path' = Head(batch)
            /\ batch' = Tail(batch)
            /\ IF Head(batch).ext # "rs"
               THEN pc_r' = "rebuild" /\ origin' = "nonrs"
               ELSE pc_r' = "update" /\ UNCHANGED origin
    /\ UNCHANGED <<msgs, shutdown, last_update_time>>
    /\ UNCHANGED <<sharedVars, socketVars, listenerVars, envVars, connHist, countHist, bcHist, rbHist>>
    /\ UNCHANGED gateHist

\* Mutation of IntoIter: the result list is visited back to front.
IntoIterReversed(ms) == [k \in DOMAIN ms |-> ms[Len(ms) + 1 - k]]

\* for msg in msgs: a Vec is visited front to back.
IntoIter(ms) == ms

\* match file_map.lock().unwrap().update_rsx(path, ..): the file_map guard
\* lives until the end of the match; NeedsRebuild drops the channels guard.
Update ==
    /\ pc_r = "update"
    /\ fmLock = "none"
    /\ fmLock' = "router"
    /\ \E res \in UpdateResults(path, nextT) :
         IF res.kind = "UpdatedRsx"
         THEN /\ file_map' = StoreTemplates(file_map, path, res.msgs)
              /\ nextT' = nextT + Len(res.msgs)
              /\ msgs' = IntoIter(res.msgs)
              /\ pc_r' = "bcast"
              /\ bcStart' = channels /\ bcMsgs' = res.msgs
              /\ bcBase' = [c \in Conns |-> Len(log[c])]
              /\ UNCHANGED <<chanLock, origin>>
         ELSE /\ chanLock' = "none"
              /\ origin' = "needs"
              /\ pc_r' = "rebuild"
              /\ UNCHANGED <<file_map, nextT, msgs, bcHist>>
    /\ UNCHANGED <<dead, channels, chanPoisoned, aborted, rebuild_with>>
    /\ UNCHANGED <<batch, path, shutdown, last_update_time, now>>
    /\ UNCHANGED <<listenerVars, connHist, countHist, rbHist>>
    /\ UNCHANGED gateHist

\* Mutation of NextIndex: the index also advances after channels.remove(i).
NextIndexAlways(k, ok) == k + 1

\* i += 1 after a successful send; after channels.remove(i) the index stays.
NextIndex(k, ok) == IF ok THEN k + 1 ELSE k

\* channels.remove(i) when send_msg returned false.
Evict(chs, k, ok) == IF ok THEN chs ELSE RemoveAt(chs, k)

\* let mut i = 0; while i < channels.len() { .. }: msg is sent to the
\* connections from index k on; alive[c] is whether the peer of c is still
\* there.  Yields the registry, the write logs and the gone peers.
RECURSIVE SendLoop(_, _, _, _, _, _)
SendLoop(chs, lg, gone, msg, k, alive) ==
    IF k > Len(chs)
    THEN [channels |-> chs, log |-> lg, dead |-> gone]
    ELSE LET c == chs[k]
             ok == send_msg(msg, WriteOk(gone, c, alive[c]))
         IN  SendLoop(Evict(chs, k, ok),
                      [lg EXCEPT ![c] = Append(@, LogEntry(msg, ok, TRUE))],
                      GoneAfter(gone, msg, c, alive[c]),
                      msg, NextIndex(k, ok), alive)

\* for msg in msgs { .. }: one iteration, the broadcast of one template.
Broadcast ==
    /\ pc_r = "bcast"
    /\ IF msgs = <<>>
       THEN /\ fmLock' = "none"
            /\ pc_r' = "path"
            /\ bcStart' = <<>> /\ bcMsgs' = <<>> /\ bcBase' = [c \in Conns |-> 0]
            /\ UNCHANGED <<channels, msgs, log, dead, bcastInBatch>>
       ELSE \E alive \in [Conns -> BOOLEAN] :
            LET after == SendLoop(channels, log, dead, UpdateTemplate(Head(msgs)), 1, alive)
            IN  /\ channels' = after.channels
                /\ log' = after.log
                /\ dead' = after.dead
                /\ msgs' = Tail(msgs)
                /\ bcastInBatch' = bcastInBatch + Len(channels)
                /\ UNCHANGED <<fmLock, pc_r, bcHist>>
    /\ UNCHANGED <<chanLock, chanPoisoned, aborted, file_map, rebuild_with>>
    /\ UNCHANGED <<batch, path, shutdown, origin, last_update_time>>
    /\ UNCHANGED <<mapAt, tAt, replayed, rbInBatch, terminated>>
    /\ UNCHANGED <<listenerVars, envVars, rbHist>>
    /\ UNCHANGED gateHist

\* ------------------------------------------------------------ rebuild closure
\* rebuild(): with a callback, run it and set aborted when it returns true;
\* without one, only log and return true.
Rebuild ==
    /\ pc_r = "rebuild"
    /\ rbInBatch' = rbInBatch + 1
    /\ rbChans' = Range(channels)
    /\ rbBase' = [c \in Conns |-> Len(log[c])]
    /\ IF rebuild_with = "Some"
       THEN \E sd \in BOOLEAN :
              /\ shutdown' = sd
              /\ aborted' = (aborted \/ sd)
              /\ terminated' = (terminated \/ sd)
              /\ pc_r' = "rb_lock"
              /\ rbEnded' = FALSE
       ELSE /\ shutdown' = TRUE
            /\ pc_r' = "rb_ret"
            /\ rbEnded' = TRUE
            /\ UNCHANGED <<aborted, terminated>>
    /\ UNCHANGED <<dead, channels, chanLock, chanPoisoned, fmLock, file_map, rebuild_with>>
    /\ UNCHANGED <<batch, path, msgs, origin, last_update_time>>
    /\ UNCHANGED bcastInBatch
    /\ UNCHANGED <<listenerVars, envVars, connHist, bcHist>>
    /\ UNCHANGED gateHist

\* channels.lock() inside the closure.  Locking a std Mutex the thread already
\* holds never returns: the thread deadlocks or panics (poisoning the mutex
\* when the held guard is dropped by the unwinding).
RebuildLock ==
    /\ pc_r = "rb_lock"
    /\ IF chanLock = "router"
       THEN /\ \E outcome \in {"deadlocked", "panicked"} :
                 /\ pc_r' = outcome
                 /\ chanLock' = IF outcome = "panicked" THEN "none" ELSE chanLock
                 /\ chanPoisoned' = (outcome = "panicked")
            /\ rbEnded' = TRUE
       ELSE /\ chanLock = "none"
            /\ chanLock' = "router"
            /\ pc_r' = "rb_send"
            /\ UNCHANGED <<chanPoisoned, rbEnded>>
    /\ UNCHANGED <<dead, channels, fmLock, aborted, file_map, rebuild_with>>
    /\ UNCHANGED <<batch, path, msgs, shutdown, origin, last_update_time>>
    /\ UNCHANGED <<rbChans, rbBase>>
    /\ UNCHANGED <<listenerVars, envVars, connHist, countHist, bcHist>>
    /\ UNCHANGED gateHist

\* for channel in channels { send_msg(Shutdown, channel); }: the result of
\* send_msg is not looked at; the guard is dropped when the closure returns.
RebuildSend ==
    /\ pc_r = "rb_send"
    /\ \E alive \in [Conns -> BOOLEAN] :
         /\ log' = [c \in Conns |->
                      IF c \in Range(channels)
                      THEN Append(log[c], LogEntry(Shutdown,
                                    send_msg(Shutdown, WriteOk(dead, c, alive[c])), TRUE))
                      ELSE log[c]]
         /\ dead' = dead \cup {c \in Range(channels) : ~ alive[c]}
    /\ chanLock' = "none"
    /\ pc_r' = "rb_ret"
    /\ rbEnded' = TRUE
    /\ UNCHANGED <<channels, chanPoisoned, fmLock, aborted, file_map, rebuild_with>>
    /\ UNCHANGED <<batch, path, msgs, shutdown, origin, last_update_time>>
    /\ UNCHANGED <<mapAt, tAt, replayed, rbChans, rbBase>>
    /\ UNCHANGED <<listenerVars, envVars, countHist, bcHist>>
    /\ UNCHANGED gateHist

\* Mutation of AfterRebuild: the thread does not return when rebuild() is true.
AfterRebuildNoReturn(sd) == "end"

\* Mutation of AfterRebuild: the path loop is not left when rebuild() is false.
AfterRebuildNoBreak(sd) == IF sd THEN "done" ELSE "lock"

\* UpdateResult::NeedsRebuild arm: if rebuild() { return; } break;
AfterRebuild(sd) == IF sd THEN "done" ELSE "end"

\* Mutation of AfterRebuildNonRs: the result of rebuild() is not looked at.
AfterRebuildNonRsFallThrough(sd) == "update"

\* Non-.rs path: if .. && rebuild() { return; }, else on to update_rsx.
AfterRebuildNonRs(sd) == IF sd THEN "done" ELSE "update"

\* The caller's side of rebuild(): return from the thread (dropping every
\* guard and local it holds), leave the path loop, or go on.
RebuildReturn ==
    /\ pc_r = "rb_ret"
    /\ pc_r' = IF origin = "nonrs" THEN AfterRebuildNonRs(shutdown) ELSE AfterRebuild(shutdown)
    /\ chanLock' = IF pc_r' = "done" THEN "none" ELSE chanLock
    /\ fmLock' = IF origin = "needs" \/ pc_r' = "done" THEN "none" ELSE fmLock
    /\ batch' = IF pc_r' = "done" THEN <<>> ELSE batch
    /\ rbChans' = {} /\ rbBase' = [c \in Conns |-> 0] /\ rbEnded' = FALSE
    /\ UNCHANGED <<dead, channels, chanPoisoned, aborted, file_map, rebuild_with>>
    /\ UNCHANGED <<path, msgs, shutdown, origin, last_update_time>>
    /\ UNCHANGED <<listenerVars, envVars, connHist, countHist, bcHist>>
    /\ UNCHANGED gateHist

\* End of the if-let block: the channels guard is dropped and the debounce
\* timestamp is set.
EndBatch ==
    /\ pc_r = "end"
    /\ chanLock' = "none"
    /\ last_update_time' = now
    /\ pc_r' = "wait"
    /\ batch' = <<>> /\ path' = FileA /\ shutdown' = FALSE /\ origin' = "needs"
    /\ rbInBatch' = 0 /\ bcastInBatch' = 0
    /\ skipped' = {} /\ UNCHANGED gateAt
    /\ UNCHANGED <<dead, channels, chanPoisoned, fmLock, aborted, file_map, rebuild_with>>
    /\ UNCHANGED <<msgs, terminated>>
    /\ UNCHANGED <<listenerVars, envVars, connHist, bcHist, rbHist>>

Router ==
    \/ Event \/ LockChannels \/ NextPath \/ Update \/ Broadcast
    \/ Rebuild \/ RebuildLock \/ RebuildSend \/ RebuildReturn \/ EndBatch

\* The wall clock advances by a second.  The clock is read only by the
\* debounce gate and at the end of a batch, so it is advanced only when the
\* watcher thread is about to read it.
Tick ==
    /\ now < MaxTime
    /\ pc_r \in {"wait", "end"}
    /\ now' = now + 1
    /\ UNCHANGED nextT
    /\ UNCHANGED <<sharedVars, socketVars, listenerVars, routerVars, connHist, countHist, bcHist, rbHist>>
    /\ UNCHANGED gateHist

Next == Listener \/ Router \/ Tick

Spec == Init /\ [][Next]_vars

\* Both loops run on threads of their own: a thread that can take a step
\* eventually takes one.
FairSpec == Spec /\ WF_vars(Listener) /\ WF_vars(Router)

\* ============================================================ properties
\* The replay a connection is owed for a file_map: the Some slots in map order.
RECURSIVE ExpectedFrom(_, _)
ExpectedFrom(fm, k) ==
    IF k > Len(MapOrder) THEN <<>>
    ELSE (IF fm[MapOrder[k]] = NoTemplate THEN <<>> ELSE <<fm[MapOrder[k]]>>)
         \o ExpectedFrom(fm, k + 1)

ExpectedReplay(c) == ExpectedFrom(mapAt[c], 1)

IsLiveTemplate(e) == e.live /\ e.msg.type = "UpdateTemplate"

\* A step in which the watcher calls send_msg with an UpdateTemplate.
TemplateSend == Broadcast /\ log' # log

\* C1: replay-before-live.  The send_msg calls on an accepted connection
\* start with one UpdateTemplate per template of the file_map at the moment
\* of its snapshot, in map order; every later call is a broadcast of the
\* watcher, no broadcast reaches a connection whose replay loop has not
\* finished, and only a connection whose replay loop has finished is registered.
ReplayBeforeLive ==
    \A c \in Conns :
      LET exp == ExpectedReplay(c)
      IN  /\ c \in Range(channels) => c \in replayed
          /\ c \notin replayed => \A k \in DOMAIN log[c] : ~ log[c][k].live
          /\ c \in replayed =>
               /\ Len(log[c]) >= Len(exp)
               /\ \A k \in DOMAIN log[c] :
                    IF k <= Len(exp)
                    THEN log[c][k].msg = UpdateTemplate(exp[k]) /\ ~ log[c][k].live
                    ELSE log[c][k].live

\* A registered connection that was replayed two templates and afterwards
\* received a broadcast of the watcher.
ReplayBeforeLiveWitness ==
    \E c \in Range(channels) :
      /\ Len(ExpectedReplay(c)) = 2
      /\ \E k \in DOMAIN log[c] : log[c][k].live

\* C2: no update is missed by a late joiner.  When the watcher is between
\* batches, every registered connection has been broadcast every template
\* the diff engine produced after the connection's snapshot was taken.
NoUpdateMissed ==
    pc_r \in {"wait", "done"} =>
      \A c \in Range(channels) :
        \A t \in (tAt[c] + 1)..nextT :
          \E k \in DOMAIN log[c] : IsLiveTemplate(log[c][k]) /\ log[c][k].msg.template.id = t

\* C3: no update is delivered twice to a late joiner.  A template of a
\* connection's replay snapshot is never broadcast to that connection.
NoDoubleDelivery ==
    \A c \in Conns :
      \A k \in DOMAIN log[c] :
        IsLiveTemplate(log[c][k]) =>
          \A j \in DOMAIN ExpectedReplay(c) :
            ExpectedReplay(c)[j].id # log[c][k].msg.template.id

\* A registered connection with a non-empty snapshot that was afterwards
\* broadcast a template update.
NoDoubleDeliveryWitness ==
    \E c \in Range(channels) :
      /\ ExpectedReplay(c) # <<>>
      /\ \E k \in DOMAIN log[c] : IsLiveTemplate(log[c][k])

\* C4: a connection on which a replay send failed is never registered.
ReplayFailureNotRegistered ==
    \A c \in Range(channels) :
      \A k \in DOMAIN log[c] : ~ log[c][k].live => log[c][k].ok

\* C5: eviction isolation.  When the broadcast of an UpdatedRsx result is
\* over, a connection registered at its start was removed if and only if
\* one of its sends failed, and every connection all of whose sends
\* succeeded was sent exactly the templates of the result, once each, in order.
EvictionIsolation ==
    (pc_r = "bcast" /\ msgs = <<>>) =>
      \A c \in Range(bcStart) :
        LET new == SubSeq(log[c], bcBase[c] + 1, Len(log[c]))
        IN  IF \A k \in DOMAIN new : new[k].ok
            THEN /\ c \in Range(channels)
                 /\ [k \in DOMAIN new |-> new[k].msg] =
                    [k \in DOMAIN bcMsgs |-> UpdateTemplate(bcMsgs[k])]
            ELSE c \notin Range(channels)

\* The broadcast of two templates to two registered connections is over, one
\* connection was removed and the other is still registered.
EvictionIsolationWitness ==
    /\ pc_r = "bcast" /\ msgs = <<>>
    /\ Len(bcMsgs) = 2 /\ Len(bcStart) = 2 /\ Len(channels) = 1
    /\ \A k \in DOMAIN bcMsgs : bcMsgs[k].ser

\* C6: every broadcast evicts on write failure.  No registered connection
\* has a failed send of the watcher.
BroadcastEvicts ==
    \A c \in Range(channels) :
      \A k \in DOMAIN log[c] : log[c][k].live => log[c][k].ok

\* C7: a batch in which rebuild() was invoked has sent no UpdateTemplate.
RebuildBatchSendsNoTemplate == rbInBatch >= 1 => bcastInBatch = 0

\* C7 as amended: once rebuild() has been invoked in a batch, the watcher
\* sends no UpdateTemplate in the rest of that batch.
NoTemplateAfterRebuild == [][rbInBatch >= 1 => ~ TemplateSend]_vars

\* The path loop was left by a rebuild after an earlier path of the batch
\* had its templates broadcast.
NoTemplateAfterRebuildWitness ==
    pc_r = "end" /\ rbInBatch = 1 /\ bcastInBatch >= 1

\* C8: when an invocation of rebuild() is over, every connection registered
\* at the invocation has been sent Shutdown since.
RebuildSendsShutdown ==
    rbEnded =>
      \A c \in rbChans :
        \E k \in (rbBase[c] + 1)..Len(log[c]) : log[c][k].msg = Shutdown

\* C9: a rebuild decision ends the batch.  rebuild() is invoked at most once
\* in a batch, and after the invocation the batch has no update_rsx call and
\* no rebuild() invocation.
RebuildEndsBatch ==
    /\ [](rbInBatch <= 1)
    /\ [][rbInBatch >= 1 => ~ Update /\ ~ Rebuild]_vars

\* The path loop was left after a rebuild whose callback returned false,
\* with paths of the batch not visited.
RebuildEndsBatchWitness ==
    pc_r = "end" /\ rbInBatch = 1 /\ batch # <<>> /\ ~ shutdown /\ rebuild_with = "Some"

\* C10: terminated is absorbing for the watcher.  Once a rebuild callback
\* has returned true, the watcher takes no further event, calls neither
\* update_rsx nor the callback and sends no UpdateTemplate.
TerminatedAbsorbing ==
    [][terminated => ~ Event /\ ~ Update /\ ~ Rebuild /\ ~ TemplateSend]_vars

\* The watcher thread has returned after the callback returned true, while
\* the debounce gate is open for a further event.
TerminatedAbsorbingWitness ==
    terminated /\ pc_r = "done" /\ now > last_update_time

\* C11: listener shutdown.  Once aborted is true the listener thread
\* eventually ends, by the break of its loop or by a panic.
ListenerExits == aborted ~> pc_l \in {"done", "panicked"}

\* C12: without a rebuild callback a required rebuild ends the session: when
\* the watcher thread has returned, aborted is true.
NoStrategyAborts == (rebuild_with = "None" /\ pc_r = "done") => aborted

\* A changed path the filter has to leave out: its extension is not
\* eligible, it starts with an excluded path, or the ignore rules match it.
Filtered(p) ==
    \/ p.ext \notin {"rs", "toml", "css", "html", "js"}
    \/ \E pre \in excluded_paths : starts_with(p, pre)
    \/ is_ignore(p)

\* C13: filter correctness.  No filtered path is among the paths the watcher
\* visits, and every update_rsx call, rebuild() invocation and write of the
\* watcher is made for a path that is not filtered and that the filter did
\* not leave out of the event.
FilterCorrect ==
    /\ [](\A k \in DOMAIN batch : ~ Filtered(batch[k]))
    /\ [][(Update \/ Rebuild \/ RebuildSend \/ TemplateSend) =>
            (~ Filtered(path) /\ path \notin skipped)]_vars

\* An event held a path below the excluded target directory, with an
\* eligible extension, and a source file: the source file's templates are
\* being broadcast.
FilterCorrectWitness ==
    /\ FileTarget \in skipped
    /\ pc_r = "bcast" /\ path = FileA /\ bcMsgs # <<>> /\ msgs = <<>>
    /\ channels # <<>>

\* A step in which an event passes the gate and its batch is evaluated.
BatchStart == Event /\ pc_r' = "lock"

\* C14: debounce gate.  An event is evaluated only when the clock is past
\* last_update_time and past the second of the last evaluated event; the end
\* of a batch sets last_update_time to the clock; while the gate is closed
\* the watcher does nothing and keeps nothing of an event.
DebounceGate ==
    /\ [][BatchStart => (now > last_update_time /\ now > gateAt)]_vars
    /\ [][EndBatch => last_update_time' = now]_vars
    /\ [][(pc_r = "wait" /\ now <= last_update_time) =>
            UNCHANGED <<routerVars, file_map, nextT, countHist, gateHist>>]_vars

\* A batch was evaluated in second 2 and has ended: the gate is closed for
\* the rest of that second, after an earlier batch in second 1.
DebounceGateWitness ==
    /\ pc_r = "wait" /\ gateAt = 2 /\ now = 2 /\ last_update_time = 2
    /\ file_map[FileA].id = 1 /\ file_map[FileB].id = 2

\* C15: per-connection send order.  The UpdateTemplate calls the watcher
\* makes on a connection are in the order the templates were generated
\* (template ids count the generation order, across paths and results).
SendOrder ==
    \A c \in Conns :
      \A j, k \in DOMAIN log[c] :
        (j < k /\ IsLiveTemplate(log[c][j]) /\ IsLiveTemplate(log[c][k])) =>
          log[c][j].msg.template.id < log[c][k].msg.template.id

\* The broadcast of a result of two templates is over and a connection that
\* is still registered was sent both.
SendOrderWitness ==
    /\ pc_r = "bcast" /\ msgs = <<>> /\ Len(bcMsgs) = 2
    /\ \E c \in Range(channels) : Len(log[c]) = bcBase[c] + 2

\* C16: aborted is monotone.  It is false at startup and no step takes it
\* from true to false.
AbortedMonotone ==
    /\ aborted = FALSE
    /\ [][aborted => aborted']_vars

\* Both threads have ended with aborted set.
AbortedMonotoneWitness == aborted /\ pc_r = "done" /\ pc_l = "done"

\* C17: continue returns to running.  A rebuild() invocation whose callback
\* returned false and that is over has returned to the path loop.
ContinueReturns ==
    (rebuild_with = "Some" /\ rbEnded /\ ~ shutdown) => pc_r = "rb_ret"

\* C18: lock discipline.  No thread holds the channels lock and the file_map
\* lock at the same time.
LockDiscipline == ~ (chanLock = "router" /\ fmLock = "router")

\* C19: a serialisation failure drops only the message.  When the broadcast
\* of a result is over, every connection registered at its start whose peer
\* is still there is still registered.
SerFailureKeepsConnections ==
    (pc_r = "bcast" /\ msgs = <<>>) =>
      \A c \in Range(bcStart) : c \notin dead => c \in Range(channels)

\* C20: lock deadlock freedom.  The watcher never locks channels while it
\* holds that lock, and is never blocked on it for ever.
LockDeadlockFree ==
    /\ ~ (pc_r = "rb_lock" /\ chanLock = "router")
    /\ pc_r # "deadlocked"

====
